---- MODULE Spec2Model ----
(***************************************************************************)
(* Server-Sent-Events push: the server-side connection registry            *)
(* (src/lib/sse/manager.ts, SSEManager) and the client-side reconnecting   *)
(* consumer (features/sse/hooks/useEventSource.tsx).                       *)
(*                                                                         *)
(* manager.ts holds two registry contracts that the model keeps apart by   *)
(* the variable variant:                                                   *)
(*   "async"  removeClient awaits client.close()      (manager.ts 7-126)   *)
(*   "sync"   removeClient clears the heartbeat and never touches the      *)
(*            writer; sendToClient catches a rejected write                *)
(*            (manager.ts 283-436)                                         *)
(***************************************************************************)
EXTENDS Integers, Sequences, FiniteSets, TLC

\* ------------------------------------------------------------------ bounds
MaxObjs == 2
MaxIds == 2
MaxUsers == 2
MaxTimers == 2

Objs == 1..MaxObjs
Ids == 1..MaxIds
Users == 1..MaxUsers
Handles == 1..MaxTimers
\* userId absent (undefined / null / "")
NoUser == 0
\* client.heartbeat undefined
NoTimer == 0

Variants == {"sync", "async"}

\* EventSource objects one client instance may construct
MaxTransports == 12
\* the same, while subscribers and frames are modelled
MaxDispatchTransports == 2
\* frames received by one client instance
MaxFrames == 1
\* subscriber callbacks
MaxHandlers == 2
\* distinct (name, handler) pairs the application subscribes
MaxSubscribes == 1
\* subscribe() calls in a run of the listener registry alone
MaxListenerSubs == 2
\* armed reconnect timers that timerRef has lost
MaxStrayTimers == 1
\* longest string payload handed to formatSSE
MaxLen == 3

\* useEventSource options, reconnect defaults
initialDelayMs == 1000
maxDelayMs == 15000
maxRetries == 10

\* EventSource.readyState
CONNECTING == 0
OPEN == 1
CLOSED == 2

Transports == 1..MaxTransports
Handlers == 1..MaxHandlers
ReservedNames == {"open", "error", "message"}
NamedEvents == {"connected", "notification"}
EventNames == ReservedNames \cup NamedEvents
\* The frames a server sends: the event name ("message" for a frame without
\* an event line), ev.lastEventId ("" when the frame carries no id) and
\* ev.data as it arrives.
HandshakeData == "{\"clientId\":\"c1\",\"userId\":\"u1\"}"
FrameInputs ==
    {[event |-> "connected", id |-> "", data |-> HandshakeData],
     [event |-> "notification", id |-> "e1", data |-> "hello"],
     [event |-> "message", id |-> "e1", data |-> HandshakeData],
     [event |-> "message", id |-> "", data |-> "hello"]}

VARIABLES
    variant,      \* which SSEManager contract is running
    created,      \* the connection objects constructed so far
    clients,      \* per connection object: its fields
    byId,         \* SSEManager.clients / clientsById : id -> connection object
    byUser,       \* SSEManager.clientIdsByUser       : userId -> set of ids
    timers,       \* the armed setInterval timers: handle -> [obj, id] of its closure
    nextTimer,    \* number of setInterval calls made so far
    catches,      \* rejected heartbeat writes whose .catch handler has not run yet
    call,         \* the send operation in flight (sendToClient / sendToUser / broadcast)
    threw         \* an exception / rejection reached the caller of a registry method

serverVars == <<variant, created, clients, byId, byUser, timers, nextTimer, catches, call, threw>>

VARIABLES
    reconnectEnabled, \* option reconnect.enabled
    transportCap,     \* EventSource objects a run may construct
    subscribeCap,     \* subscribe() calls a run may make
    eventSourceRef,   \* the current EventSource object, 0 for null
    nTransports,      \* EventSource objects constructed so far
    readyStates,      \* readyState of every EventSource object
    wired,            \* per EventSource object and name: its addEventListener dispatchers
    retryRef,         \* reconnect attempt counter
    timerRef,         \* "none" (null), "pending" (armed) or "fired" (stale handle)
    timerDelay,       \* delay given to the setTimeout call made last
    strayTimers,      \* armed timers that timerRef no longer refers to
    destroyedRef,     \* set by disconnect(), cleared by connect()
    listenersRef,     \* event name -> set of subscribed handlers
    attachedNamesRef, \* names recorded as wired on the current transport
    state,            \* the EventSourceState returned to the application
    unsubs,           \* the unsubscribe closures handed out, in order: <<name, handler>>
    liveSubs,         \* positions in unsubs of the closures not called so far
    invoked,          \* per handler: times a frame was dispatched to it
    lastEmit,         \* the emit() made last: name, handlers called, payload
    nFrames,          \* frames received so far
    armedSinceOpen,   \* reconnect timers armed since the last onopen
    cancelled,        \* "no"; "cancelled": disconnect() met a pending timer;
                      \* "reconnected": connect() was called manually after that
    exhausted,        \* scheduleReconnect returned at the retry cap since the last onopen
    earlySubs,        \* <<name, handler>> subscribed before the first connect()
    lastFrame,        \* event name of the frame received last
    openConnect       \* the last step was a connect() that met an open transport

clientVars == <<reconnectEnabled, transportCap, subscribeCap, eventSourceRef, nTransports, readyStates, wired,
                retryRef, timerRef, timerDelay, strayTimers, destroyedRef,
                listenersRef, attachedNamesRef, state, unsubs, liveSubs, invoked, lastEmit,
                nFrames, armedSinceOpen, cancelled, exhausted, earlySubs, lastFrame, openConnect>>

VARIABLES
    sseEvent,         \* the SSEEvent handed to formatSSE
    codecStep,        \* "idle", "input", "formatted" or "decoded"
    chunk,            \* the text formatSSE encodes, a sequence of characters
    frames,           \* what an SSE parser makes of chunk: the events dispatched
    request,          \* the body of the publish request handled last
    response,         \* its answer: HTTP status and the registry method invoked
    handler,          \* per connection object: where the GET that made it stands
    signal            \* per connection object: its request's abort signal

boundaryVars == <<sseEvent, codecStep, chunk, frames, request, response, handler, signal>>

vars == <<serverVars, clientVars, boundaryVars>>

\* ------------------------------------------------------------ Map helpers
\* Map.prototype.set
MapSet(m, k, v) == [x \in (DOMAIN m) \cup {k} |-> IF x = k THEN v ELSE m[x]]
\* Map.prototype.delete
MapDel(m, k) == [x \in (DOMAIN m) \ {k} |-> m[x]]
EmptyMap == [x \in {} |-> 0]

\* A connection object before its constructor ran.
NoClient == [id |-> 0, userId |-> NoUser, sink |-> "open", heartbeat |-> NoTimer,
             peerGone |-> FALSE, aborted |-> FALSE]

IdleCall == [kind |-> "none", status |-> "idle", snap |-> {}, targets |-> {},
             pending |-> {}, delivered |-> {}, failed |-> {}]

\* ----------------------------------------------------------- the registry
\* an addClient that keeps the entry of an id already registered
AddByIdKeepsFirst(cl, bI, o) ==
    IF cl[o].id \in DOMAIN bI THEN bI ELSE MapSet(bI, cl[o].id, o)

\* addClient: clients.set(id, client); then, with a userId, the id joins
\* (creating it if absent) the user's set.
AddById(cl, bI, o) == MapSet(bI, cl[o].id, o)

AddByUser(cl, bU, o) ==
    LET c == cl[o] IN
    IF c.userId = NoUser THEN bU
    ELSE MapSet(bU, c.userId,
                (IF c.userId \in DOMAIN bU THEN bU[c.userId] ELSE {}) \cup {c.id})

\* removeClient without its presence check: client is undefined for an
\* unknown id and reading client.userId raises a TypeError.
RemoveMapsNoGuard(cl, bI, bU, i) ==
    IF i \notin DOMAIN bI THEN [byId |-> bI, byUser |-> bU, threw |-> TRUE]
    ELSE LET u == cl[bI[i]].userId IN
         [byId |-> MapDel(bI, i),
          byUser |-> IF u # NoUser /\ u \in DOMAIN bU
                     THEN (IF bU[u] \ {i} = {} THEN MapDel(bU, u)
                           ELSE MapSet(bU, u, bU[u] \ {i}))
                     ELSE bU,
          threw |-> FALSE]

\* removeClient, the part on the two maps: unknown id -> return; delete the
\* id from clients; with a userId whose set exists, delete the id from the
\* set and prune the set when it became empty.
RemoveMaps(cl, bI, bU, i) ==
    IF i \notin DOMAIN bI THEN [byId |-> bI, byUser |-> bU, threw |-> FALSE]
    ELSE LET u == cl[bI[i]].userId IN
         [byId |-> MapDel(bI, i),
          byUser |-> IF u # NoUser /\ u \in DOMAIN bU
                     THEN (IF bU[u] \ {i} = {} THEN MapDel(bU, u)
                           ELSE MapSet(bU, u, bU[u] \ {i}))
                     ELSE bU,
          threw |-> FALSE]

\* sync removeClient: clearInterval(client.heartbeat) when the field is set
\* (the field itself is left as it is).
RemoveTimersSync(tm, cl, bI, i) ==
    IF i \in DOMAIN bI /\ cl[bI[i]].heartbeat # NoTimer
    THEN MapDel(tm, cl[bI[i]].heartbeat)
    ELSE tm

\* SSEClient.close(): cancel the heartbeat timer, then close the sink.  The
\* sink is "closing" until writer.close() settles.  Closing twice is a no-op.
CloseTimers(tm, cl, o) ==
    IF cl[o].heartbeat # NoTimer THEN MapDel(tm, cl[o].heartbeat) ELSE tm

CloseClient(cl, o) ==
    [cl EXCEPT ![o].sink = IF @ = "open" THEN "closing" ELSE @,
               ![o].heartbeat = NoTimer]

\* The connection objects after removeClient(i).
RemoveClients(v, cl, bI, i) ==
    IF i \in DOMAIN bI /\ v = "async" THEN CloseClient(cl, bI[i]) ELSE cl

\* The armed timers after removeClient(i).
RemoveTimers(v, tm, cl, bI, i) ==
    IF i \notin DOMAIN bI THEN tm
    ELSE IF v = "async" THEN CloseTimers(tm, cl, bI[i])
    ELSE RemoveTimersSync(tm, cl, bI, i)


\* ---------------------------------------------------------- server actions
\* Does a write to connection object o's sink reject?  It does once the
\* peer is gone or the writer is closed.
WriteFails(o) == clients[o].peerGone \/ clients[o].sink = "closed"

\* new SSEClient(userId) / { clientId, userId, writer } followed by
\* addClient(client).  The id is whatever the caller supplies: addClient
\* accepts an id that is already registered.
NewClient(i, u) ==
    /\ Cardinality(created) < MaxObjs
    /\ LET o == Cardinality(created) + 1
           cl == [clients EXCEPT ![o] = [NoClient EXCEPT !.id = i, !.userId = u]]
       IN /\ created' = created \cup {o}
          /\ clients' = cl
          /\ byId' = AddById(cl, byId, o)
          /\ byUser' = AddByUser(cl, byUser, o)
    /\ UNCHANGED <<variant, timers, nextTimer, catches, call, threw>>
    /\ UNCHANGED <<clientVars, boundaryVars>>

\* addClient(client) for a connection object that already exists.
AddClient(o) ==
    /\ o \in created
    /\ byId' = AddById(clients, byId, o)
    /\ byUser' = AddByUser(clients, byUser, o)
    /\ UNCHANGED <<variant, created, clients, timers, nextTimer, catches, call, threw>>
    /\ UNCHANGED <<clientVars, boundaryVars>>

\* removeClient(i), for any id.
RemoveClient(i) ==
    /\ LET r == RemoveMaps(clients, byId, byUser, i) IN
          /\ byId' = r.byId
          /\ byUser' = r.byUser
          /\ threw' = (threw \/ r.threw)
    /\ timers' = RemoveTimers(variant, timers, clients, byId, i)
    /\ clients' = RemoveClients(variant, clients, byId, i)
    /\ UNCHANGED <<variant, created, nextTimer, catches, call>>
    /\ UNCHANGED <<clientVars, boundaryVars>>

\* startHeartbeat without the clearInterval of the previous timer.
HeartbeatCancelSkipped(tm, cl, o) == tm

\* startHeartbeat, first half: clearInterval(client.heartbeat) when set.
HeartbeatCancel(tm, cl, o) ==
    IF cl[o].heartbeat # NoTimer THEN MapDel(tm, cl[o].heartbeat) ELSE tm

\* startHeartbeat(i): unknown id -> return; cancel the previous timer, arm
\* a new one whose closure holds the connection object and the id.
StartHeartbeat(i) ==
    /\ i \in DOMAIN byId => nextTimer < MaxTimers
    /\ IF i \notin DOMAIN byId
       THEN UNCHANGED <<timers, nextTimer, clients>>
       ELSE LET o == byId[i]
                h == nextTimer + 1
            IN /\ timers' = MapSet(HeartbeatCancel(timers, clients, o), h,
                                   [obj |-> o, id |-> i])
               /\ nextTimer' = h
               /\ clients' = [clients EXCEPT ![o].heartbeat = h]
    /\ UNCHANGED <<variant, created, byId, byUser, catches, call, threw>>
    /\ UNCHANGED <<clientVars, boundaryVars>>

\* One tick of an armed heartbeat timer: writer.write(": ping ...").  A
\* rejected write leaves its .catch handler to run later.
HeartbeatTick(h) ==
    /\ h \in DOMAIN timers
    /\ WriteFails(timers[h].obj)
    /\ catches' = catches \cup {timers[h]}
    /\ UNCHANGED <<variant, created, clients, byId, byUser, timers, nextTimer, call, threw>>
    /\ UNCHANGED <<clientVars, boundaryVars>>

\* .catch(() => this.removeClient(clientId)) of a rejected heartbeat write.
HeartbeatCatch(c) ==
    /\ c \in catches
    /\ catches' = catches \ {c}
    /\ LET r == RemoveMaps(clients, byId, byUser, c.id) IN
          /\ byId' = r.byId
          /\ byUser' = r.byUser
          /\ threw' = (threw \/ r.threw)
    /\ timers' = RemoveTimers(variant, timers, clients, byId, c.id)
    /\ clients' = RemoveClients(variant, clients, byId, c.id)
    /\ UNCHANGED <<variant, created, nextTimer, call>>
    /\ UNCHANGED <<clientVars, boundaryVars>>

\* The peer of connection object o goes away.
PeerGone(o) ==
    /\ o \in created
    /\ ~clients[o].peerGone
    /\ clients' = [clients EXCEPT ![o].peerGone = TRUE]
    /\ UNCHANGED <<variant, created, byId, byUser, timers, nextTimer, catches, call, threw>>
    /\ UNCHANGED <<clientVars, boundaryVars>>

\* The request's abort listener: removeClient(id); the sync contract's
\* endpoint then closes the writer itself.
Abort(o) ==
    /\ o \in created
    /\ clients[o].peerGone
    /\ ~clients[o].aborted
    /\ LET i == clients[o].id
           r == RemoveMaps(clients, byId, byUser, i)
           cl == RemoveClients(variant, clients, byId, i)
       IN /\ byId' = r.byId
          /\ byUser' = r.byUser
          /\ threw' = (threw \/ r.threw)
          /\ timers' = RemoveTimers(variant, timers, clients, byId, i)
          /\ clients' = [cl EXCEPT ![o].aborted = TRUE,
                                   ![o].sink = IF variant = "sync" /\ @ = "open"
                                               THEN "closing" ELSE @]
    /\ UNCHANGED <<variant, created, nextTimer, catches, call>>
    /\ UNCHANGED <<clientVars, boundaryVars>>

\* writer.close() settles.
CloseDone(o) ==
    /\ o \in created
    /\ clients[o].sink = "closing"
    /\ clients' = [clients EXCEPT ![o].sink = "closed"]
    /\ UNCHANGED <<variant, created, byId, byUser, timers, nextTimer, catches, call, threw>>
    /\ UNCHANGED <<clientVars, boundaryVars>>


\* ------------------------------------------------------- send operations
\* One send operation (sendToClient, sendToUser or broadcast) is in flight
\* at a time.  Its record keeps the ids of the snapshot, the writes started
\* (id and connection object), and how each write ended.

\* a fan-out that writes to every connection object carrying one of the
\* ids, registered under it or not
StartedWritesHeld(ids) ==
    {[id |-> clients[o].id, obj |-> o] : o \in {x \in created : clients[x].id \in ids}}

\* The writes a send operation starts: the map callback runs synchronously
\* for every id of the snapshot, looks the id up and, when it is registered,
\* starts the write on that connection object.
StartedWrites(ids) == {[id |-> i, obj |-> byId[i]] : i \in ids \cap DOMAIN byId}

StartCall(kind, ids) ==
    LET w == StartedWrites(ids) IN
    [kind |-> kind,
     status |-> IF w = {} THEN "resolved" ELSE "running",
     snap |-> ids,
     targets |-> {x.obj : x \in w},
     pending |-> w,
     delivered |-> {},
     failed |-> {}]

\* sendToClient(i, event)
SendToClient(i) ==
    /\ call.status # "running"
    /\ call' = StartCall("client", {i})
    /\ UNCHANGED <<variant, created, clients, byId, byUser, timers, nextTimer, catches, threw>>
    /\ UNCHANGED <<clientVars, boundaryVars>>

\* a sendToUser that spreads the user's set without testing that it exists
SendToUserUnguarded(u) ==
    /\ call.status # "running"
    /\ call' = StartCall("user", IF u \in DOMAIN byUser THEN byUser[u] ELSE {})
    /\ threw' = (threw \/ u \notin DOMAIN byUser)
    /\ UNCHANGED <<variant, created, clients, byId, byUser, timers, nextTimer, catches>>
    /\ UNCHANGED <<clientVars, boundaryVars>>

\* sendToUser(u, event): no set for the user -> return; otherwise fan out
\* over a copy of the set and await Promise.all.
SendToUser(u) ==
    /\ call.status # "running"
    /\ call' = StartCall("user", IF u \in DOMAIN byUser THEN byUser[u] ELSE {})
    /\ UNCHANGED <<variant, created, clients, byId, byUser, timers, nextTimer, catches, threw>>
    /\ UNCHANGED <<clientVars, boundaryVars>>

\* a broadcast that fans out over the ids of the byUser sets
BroadcastByUser ==
    /\ call.status # "running"
    /\ call' = StartCall("broadcast", UNION {byUser[u] : u \in DOMAIN byUser})
    /\ UNCHANGED <<variant, created, clients, byId, byUser, timers, nextTimer, catches, threw>>
    /\ UNCHANGED <<clientVars, boundaryVars>>

\* broadcast(event): fan out over a copy of the registered ids.
Broadcast ==
    /\ call.status # "running"
    /\ call' = StartCall("broadcast", DOMAIN byId)
    /\ UNCHANGED <<variant, created, clients, byId, byUser, timers, nextTimer, catches, threw>>
    /\ UNCHANGED <<clientVars, boundaryVars>>

\* an operation that returns as soon as one write has settled
SettledFirst(c, p) == IF c.status = "running" THEN "resolved" ELSE c.status

\* The status of the operation once the writes in p are still pending:
\* Promise.all resolves when the last one has settled.
Settled(c, p) == IF p = {} /\ c.status = "running" THEN "resolved" ELSE c.status

\* A write of the operation in flight succeeded.
WriteOk(w) ==
    /\ w \in call.pending
    /\ ~clients[w.obj].peerGone
    /\ clients[w.obj].sink # "closed"
    /\ call' = [call EXCEPT !.pending = @ \ {w},
                            !.delivered = @ \cup {w.obj},
                            !.status = Settled(call, call.pending \ {w})]
    /\ UNCHANGED <<variant, created, clients, byId, byUser, timers, nextTimer, catches, threw>>
    /\ UNCHANGED <<clientVars, boundaryVars>>

\* sendToClient with the rejection of the write passed on to its caller:
\* Promise.all, and with it the operation, rejects.
CallAfterRejectUncaught(c, w) ==
    [c EXCEPT !.pending = @ \ {w},
              !.failed = @ \cup {w.obj},
              !.status = "rejected"]

\* sendToClient's catch block: the rejection ends there, the member
\* promise fulfils.
CallAfterReject(c, w) ==
    [c EXCEPT !.pending = @ \ {w},
              !.failed = @ \cup {w.obj},
              !.status = Settled(c, c.pending \ {w})]

\* SSEClient.send() of the async contract, whose registry has no catch of
\* its own: a failed write is the connection's concern, the connection is
\* treated as dead and nothing is raised to the registry.
ClientSendFailed(c, w) ==
    [c EXCEPT !.pending = @ \ {w},
              !.failed = @ \cup {w.obj},
              !.status = Settled(c, c.pending \ {w})]

\* A write of the operation in flight is rejected; the connection is
\* unregistered through removeClient(id).
WriteRejected(w) ==
    /\ w \in call.pending
    /\ WriteFails(w.obj) \/ clients[w.obj].sink = "closing"
    /\ call' = IF variant = "sync" THEN CallAfterReject(call, w)
               ELSE ClientSendFailed(call, w)
    /\ LET r == RemoveMaps(clients, byId, byUser, w.id) IN
          /\ byId' = r.byId
          /\ byUser' = r.byUser
          /\ threw' = (threw \/ r.threw \/ call'.status = "rejected")
    /\ timers' = RemoveTimers(variant, timers, clients, byId, w.id)
    /\ clients' = RemoveClients(variant, clients, byId, w.id)
    /\ UNCHANGED <<variant, created, nextTimer, catches>>
    /\ UNCHANGED <<clientVars, boundaryVars>>


\* ------------------------------------------------------ server specification
\* the registry before any connection
InitRegistry ==
    /\ variant \in Variants
    /\ created = {}
    /\ clients = [o \in Objs |-> NoClient]
    /\ byId = EmptyMap
    /\ byUser = EmptyMap
    /\ timers = EmptyMap
    /\ nextTimer = 0
    /\ catches = {}
    /\ call = IdleCall
    /\ threw = FALSE

\* registration, removal, heartbeats and disconnecting peers
NextRegistry ==
    \/ \E i \in Ids, u \in Users \cup {NoUser} : NewClient(i, u)
    \/ \E o \in Objs : AddClient(o)
    \/ \E i \in Ids : RemoveClient(i)
    \/ \E i \in Ids : StartHeartbeat(i)
    \/ \E h \in Handles : HeartbeatTick(h)
    \/ \E c \in catches : HeartbeatCatch(c)
    \/ \E o \in Objs : PeerGone(o)
    \/ \E o \in Objs : Abort(o)
    \/ \E o \in Objs : CloseDone(o)

\* registration, removal, disconnecting peers and the send operations
NextSend ==
    \/ \E i \in Ids, u \in Users \cup {NoUser} : NewClient(i, u)
    \/ \E o \in Objs : AddClient(o)
    \/ \E i \in Ids : RemoveClient(i)
    \/ \E o \in Objs : PeerGone(o)
    \/ \E o \in Objs : Abort(o)
    \/ \E o \in Objs : CloseDone(o)
    \/ \E i \in Ids : SendToClient(i)
    \/ \E u \in Users : SendToUser(u)
    \/ Broadcast
    \/ \E w \in call.pending : WriteOk(w)
    \/ \E w \in call.pending : WriteRejected(w)

\* registration, removal, arming heartbeats and the targeted sends
NextTargets ==
    \/ \E i \in Ids, u \in Users \cup {NoUser} : NewClient(i, u)
    \/ \E i \in Ids : RemoveClient(i)
    \/ \E i \in Ids : StartHeartbeat(i)
    \/ \E o \in Objs : PeerGone(o)
    \/ \E i \in Ids : SendToClient(i)
    \/ \E u \in Users : SendToUser(u)
    \/ \E w \in call.pending : WriteOk(w)
    \/ \E w \in call.pending : WriteRejected(w)


\* ------------------------------------------------- the reconnecting client
Min(a, b) == IF a <= b THEN a ELSE b

\* parseJson: JSON.parse(raw), the raw string when that throws.
parseJson(raw) ==
    IF raw = HandshakeData
    THEN "object(clientId=c1,userId=u1)"
    ELSE raw

InitState == [connected |-> FALSE, readyState |-> CONNECTING, lastEventId |-> "null",
              lastEventName |-> "null", lastData |-> "null", error |-> FALSE]

NoEmit == [name |-> "null", to |-> {}, data |-> "null", raised |-> FALSE]

\* listenersRef.current.get(name), the empty set when the name has no entry
EmitTo(name) == IF name \in DOMAIN listenersRef THEN listenersRef[name] ELSE {}

\* The subscribed functions that throw when they are called.
ThrowingHandlers == {h \in Handlers : h = 1}

\* the loop of emit without the try/catch around each call: the first
\* handler that throws ends the loop and its error leaves emit
EmitLoopUncaught(set) ==
    [called |-> {h \in set : \A g \in set \cap ThrowingHandlers : h <= g},
     raised |-> set \cap ThrowingHandlers # {}]

\* The loop of emit: each function of the set is called inside its own
\* try/catch, a throw is logged and the loop goes on, nothing leaves emit.
EmitLoop(set) == [called |-> set, raised |-> FALSE]

\* emit(name, ...args)
Emit(name, data) ==
    lastEmit' = [name |-> name, to |-> EmitLoop(EmitTo(name)).called, data |-> data,
                 raised |-> EmitLoop(EmitTo(name)).raised]

\* the delay without the cap at maxDelayMs
BackoffUncapped(retry) == initialDelayMs * (2 ^ retry)

\* scheduleReconnect: Math.min(initialDelayMs * Math.pow(2, retry), maxDelayMs)
Backoff(retry) == Min(initialDelayMs * (2 ^ retry), maxDelayMs)

\* the retry cap tested with > in place of >=
CanScheduleOffByOne(enabled, destroyed, retry) ==
    enabled /\ ~destroyed /\ ~(retry > maxRetries)

\* scheduleReconnect's two early returns.
CanSchedule(enabled, destroyed, retry) ==
    enabled /\ ~destroyed /\ ~(retry >= maxRetries)

\* scheduleReconnect(), the part after the early returns: the delay is
\* computed from the counter, the counter is incremented, the timer is armed
\* and timerRef overwritten (a timer it referred to stays armed).
ScheduleReconnect ==
    IF CanSchedule(reconnectEnabled, destroyedRef, retryRef)
    THEN /\ timerDelay' = Backoff(retryRef)
         /\ retryRef' = retryRef + 1
         /\ timerRef' = "pending"
         /\ strayTimers' = strayTimers + (IF timerRef = "pending" THEN 1 ELSE 0)
         /\ armedSinceOpen' = armedSinceOpen + 1
         /\ UNCHANGED exhausted
    ELSE /\ exhausted' = (exhausted \/ (reconnectEnabled /\ ~destroyedRef))
         /\ UNCHANGED <<timerDelay, retryRef, timerRef, strayTimers, armedSinceOpen>>

\* cleanup() that leaves the reconnect timer alone
CleanupTimerKept(t) == t

\* cleanup(), the timer: clearTimeout(timerRef.current); timerRef.current = null
CleanupTimer(t) == "none"

\* cleanup() that drops the transport without closing it
CleanupTransportLeftOpen(rs, es) == rs

\* cleanup(), the transport: eventSourceRef.current?.close()
CleanupTransport(rs, es) == IF es # 0 THEN [rs EXCEPT ![es] = CLOSED] ELSE rs

\* connect() that leaves the destroyed flag as disconnect() set it
ConnectBodyKeepsDestroyed ==
    IF eventSourceRef # 0 /\ readyStates[eventSourceRef] = OPEN
    THEN UNCHANGED <<eventSourceRef, nTransports, readyStates, destroyedRef,
                     attachedNamesRef>>
    ELSE /\ destroyedRef' = destroyedRef
         /\ attachedNamesRef' = {}
         /\ nTransports' = nTransports + 1
         /\ eventSourceRef' = nTransports + 1
         /\ readyStates' = [CleanupTransport(readyStates, eventSourceRef)
                               EXCEPT ![nTransports + 1] = CONNECTING]

\* connect() without the test for an open transport
ConnectBodyUnguarded ==
    /\ destroyedRef' = FALSE
    /\ attachedNamesRef' = {}
    /\ nTransports' = nTransports + 1
    /\ eventSourceRef' = nTransports + 1
    /\ readyStates' = [CleanupTransport(readyStates, eventSourceRef)
                          EXCEPT ![nTransports + 1] = CONNECTING]

\* connect(): nothing when the current transport is open; otherwise clear
\* the destroyed flag, cleanup(), construct an EventSource and keep it.
ConnectBody ==
    IF eventSourceRef # 0 /\ readyStates[eventSourceRef] = OPEN
    THEN UNCHANGED <<eventSourceRef, nTransports, readyStates, destroyedRef,
                     attachedNamesRef>>
    ELSE /\ destroyedRef' = FALSE
         /\ attachedNamesRef' = {}
         /\ nTransports' = nTransports + 1
         /\ eventSourceRef' = nTransports + 1
         /\ readyStates' = [CleanupTransport(readyStates, eventSourceRef)
                               EXCEPT ![nTransports + 1] = CONNECTING]

ConnectCreates == ~(eventSourceRef # 0 /\ readyStates[eventSourceRef] = OPEN)

\* a connect() that starts the backoff over
ConnectResetsRetry ==
    /\ ConnectCreates => nTransports < transportCap
    /\ ConnectBody
    /\ timerRef' = IF ConnectCreates THEN CleanupTimer(timerRef) ELSE timerRef
    /\ cancelled' = IF cancelled = "cancelled" THEN "reconnected" ELSE cancelled
    /\ openConnect' = ~ConnectCreates
    /\ retryRef' = 0
    /\ UNCHANGED <<reconnectEnabled, transportCap, subscribeCap, wired, timerDelay, strayTimers,
                   listenersRef, state, unsubs, liveSubs, invoked, lastEmit, nFrames,
                   armedSinceOpen, exhausted, earlySubs, lastFrame>>
    /\ UNCHANGED <<serverVars, boundaryVars>>

\* connect() called by the application.
Connect ==
    /\ ConnectCreates => nTransports < transportCap
    /\ ConnectBody
    /\ timerRef' = IF ConnectCreates THEN CleanupTimer(timerRef) ELSE timerRef
    /\ cancelled' = IF cancelled = "cancelled" THEN "reconnected" ELSE cancelled
    /\ openConnect' = ~ConnectCreates
    /\ UNCHANGED <<reconnectEnabled, transportCap, subscribeCap, wired, retryRef, timerDelay, strayTimers,
                   listenersRef, state, unsubs, liveSubs, invoked, lastEmit, nFrames,
                   armedSinceOpen, exhausted, earlySubs, lastFrame>>
    /\ UNCHANGED <<serverVars, boundaryVars>>

\* The reconnect timer that timerRef refers to fires: connect().
TimerFire ==
    /\ timerRef = "pending"
    /\ ConnectCreates => nTransports < transportCap
    /\ ConnectBody
    /\ timerRef' = IF ConnectCreates THEN CleanupTimer("fired") ELSE "fired"
    /\ openConnect' = FALSE
    /\ UNCHANGED <<reconnectEnabled, transportCap, subscribeCap, wired, retryRef, timerDelay, strayTimers,
                   listenersRef, state, unsubs, liveSubs, invoked, lastEmit, nFrames,
                   armedSinceOpen, cancelled, exhausted, earlySubs, lastFrame>>
    /\ UNCHANGED <<serverVars, boundaryVars>>

\* An armed timer that timerRef no longer refers to fires: connect().
StrayTimerFire ==
    /\ strayTimers > 0
    /\ ConnectCreates => nTransports < transportCap
    /\ ConnectBody
    /\ strayTimers' = strayTimers - 1
    /\ timerRef' = IF ConnectCreates THEN CleanupTimer(timerRef) ELSE timerRef
    /\ openConnect' = FALSE
    /\ UNCHANGED <<reconnectEnabled, transportCap, subscribeCap, wired, retryRef, timerDelay,
                   listenersRef, state, unsubs, liveSubs, invoked, lastEmit, nFrames,
                   armedSinceOpen, cancelled, exhausted, earlySubs, lastFrame>>
    /\ UNCHANGED <<serverVars, boundaryVars>>

\* disconnect(): set the destroyed flag, cleanup(), report closed.
Disconnect ==
    /\ destroyedRef' = TRUE
    /\ timerRef' = CleanupTimer(timerRef)
    /\ attachedNamesRef' = {}
    /\ readyStates' = CleanupTransport(readyStates, eventSourceRef)
    /\ eventSourceRef' = 0
    /\ state' = [state EXCEPT !.connected = FALSE, !.readyState = CLOSED]
    /\ cancelled' = IF timerRef = "pending" THEN "cancelled" ELSE cancelled
    /\ openConnect' = FALSE
    /\ UNCHANGED <<reconnectEnabled, transportCap, subscribeCap, nTransports, wired, retryRef, timerDelay,
                   strayTimers, listenersRef, unsubs, liveSubs, invoked, lastEmit, nFrames,
                   armedSinceOpen, exhausted, earlySubs, lastFrame>>
    /\ UNCHANGED <<serverVars, boundaryVars>>


\* eventSource.onopen
OnOpen ==
    /\ retryRef' = 0
    /\ armedSinceOpen' = 0
    /\ state' = [state EXCEPT !.connected = TRUE, !.readyState = OPEN, !.error = FALSE]
    /\ Emit("open", "null")
    /\ exhausted' = FALSE
    /\ openConnect' = FALSE
    /\ UNCHANGED <<reconnectEnabled, transportCap, subscribeCap, eventSourceRef, nTransports, wired, timerRef,
                   timerDelay, strayTimers, destroyedRef, listenersRef,
                   attachedNamesRef, unsubs, liveSubs, invoked, nFrames, cancelled,
                   earlySubs, lastFrame>>

\* an onerror that records the error but leaves connected as it was
OnErrorKeepsConnected(rs) ==
    /\ state' = [state EXCEPT !.readyState = rs, !.error = TRUE]
    /\ Emit("error", "event")
    /\ IF rs = CLOSED THEN ScheduleReconnect
       ELSE UNCHANGED <<timerDelay, retryRef, timerRef, strayTimers, armedSinceOpen,
                        exhausted>>
    /\ openConnect' = FALSE
    /\ UNCHANGED <<reconnectEnabled, transportCap, subscribeCap, eventSourceRef, nTransports, wired,
                   destroyedRef, listenersRef, attachedNamesRef, unsubs, liveSubs, invoked,
                   nFrames, cancelled, earlySubs, lastFrame>>

\* eventSource.onerror; rs is the readyState its EventSource reports.
OnError(rs) ==
    /\ state' = [state EXCEPT !.connected = FALSE, !.readyState = rs, !.error = TRUE]
    /\ Emit("error", "event")
    /\ IF rs = CLOSED THEN ScheduleReconnect
       ELSE UNCHANGED <<timerDelay, retryRef, timerRef, strayTimers, armedSinceOpen,
                        exhausted>>
    /\ openConnect' = FALSE
    /\ UNCHANGED <<reconnectEnabled, transportCap, subscribeCap, eventSourceRef, nTransports, wired, destroyedRef,
                   listenersRef, attachedNamesRef, unsubs, liveSubs, invoked, nFrames,
                   cancelled, earlySubs, lastFrame>>

\* eventSource.onmessage and the dispatcher addListener wires for a name:
\* parse the data, overwrite lastEventName and lastData, keep lastEventId
\* unless the frame carries one, emit to the name's subscribers.
OnFrame(name, id, raw) ==
    /\ state' = [state EXCEPT !.lastEventId = IF id # "" THEN id ELSE @,
                              !.lastEventName = name,
                              !.lastData = parseJson(raw)]
    /\ Emit(name, parseJson(raw))
    /\ invoked' = [h \in Handlers |->
                     IF h \in EmitLoop(EmitTo(name)).called THEN invoked[h] + 1
                     ELSE invoked[h]]

\* Is a frame named name handed to a callback of transport t?  Unnamed
\* frames go to onmessage, named ones to the dispatcher wired on t, if any.
Dispatched(t, name) == name = "message" \/ wired[t][name] > 0

\* The transport opens.
TransportOpen(t) ==
    /\ t = eventSourceRef
    /\ readyStates[t] = CONNECTING
    /\ readyStates' = [readyStates EXCEPT ![t] = OPEN]
    /\ OnOpen
    /\ UNCHANGED <<serverVars, boundaryVars>>

\* The transport loses its connection and retries by itself: it reports
\* CONNECTING with the error.
TransportError(t) ==
    /\ t = eventSourceRef
    /\ readyStates[t] # CLOSED
    /\ readyStates' = [readyStates EXCEPT ![t] = CONNECTING]
    /\ OnError(CONNECTING)
    /\ UNCHANGED <<serverVars, boundaryVars>>

\* The transport fails for good: it reports CLOSED with the error.
TransportFail(t) ==
    /\ t = eventSourceRef
    /\ readyStates[t] # CLOSED
    /\ readyStates' = [readyStates EXCEPT ![t] = CLOSED]
    /\ OnError(CLOSED)
    /\ UNCHANGED <<serverVars, boundaryVars>>

\* A frame arrives on the open transport.
Frame(t, name, id, raw) ==
    /\ t = eventSourceRef
    /\ readyStates[t] = OPEN
    /\ nFrames < MaxFrames
    /\ nFrames' = nFrames + 1
    /\ lastFrame' = name
    /\ IF Dispatched(t, name) THEN OnFrame(name, id, raw)
       ELSE UNCHANGED <<state, lastEmit, invoked>>
    /\ openConnect' = FALSE
    /\ UNCHANGED <<reconnectEnabled, transportCap, subscribeCap, eventSourceRef, nTransports, readyStates, wired,
                   retryRef, timerRef, timerDelay, strayTimers, destroyedRef,
                   listenersRef, attachedNamesRef, unsubs, liveSubs,
                   armedSinceOpen, cancelled, exhausted, earlySubs>>
    /\ UNCHANGED <<serverVars, boundaryVars>>

\* addListener(name, handler) as subscribe() calls it: the handler joins the
\* name's set; a name that is not reserved gets its dispatcher wired on the
\* current transport unless attachedNamesRef already holds it.
Wires(name) ==
    name \notin ReservedNames /\ eventSourceRef # 0 /\ name \notin attachedNamesRef

Subscribe(name, h) ==
    /\ Len(unsubs) < subscribeCap
    /\ listenersRef' = MapSet(listenersRef, name, EmitTo(name) \cup {h})
    /\ IF Wires(name)
       THEN /\ wired' = [wired EXCEPT ![eventSourceRef][name] = @ + 1]
            /\ attachedNamesRef' = attachedNamesRef \cup {name}
       ELSE UNCHANGED <<wired, attachedNamesRef>>
    /\ unsubs' = Append(unsubs, <<name, h>>)
    /\ liveSubs' = liveSubs \cup {Len(unsubs) + 1}
    /\ earlySubs' = IF nTransports = 0 THEN earlySubs \cup {<<name, h>>} ELSE earlySubs
    /\ openConnect' = FALSE
    /\ UNCHANGED <<reconnectEnabled, transportCap, subscribeCap, eventSourceRef,
                   nTransports, readyStates, retryRef, timerRef, timerDelay,
                   strayTimers, destroyedRef, state, invoked, lastEmit, nFrames,
                   armedSinceOpen, cancelled, exhausted, lastFrame>>
    /\ UNCHANGED <<serverVars, boundaryVars>>

\* The body of the function addListener returned: delete the handler from
\* the name's set, delete the name's entry when the set became empty.
RemoveListener(lr, name, h) ==
    IF name \notin DOMAIN lr THEN lr
    ELSE IF lr[name] \ {h} = {} THEN MapDel(lr, name)
    ELSE MapSet(lr, name, lr[name] \ {h})

\* The k-th function subscribe() returned is called; it can be called any
\* number of times.
Unsubscribe(k) ==
    /\ k \in 1..Len(unsubs)
    /\ listenersRef' = RemoveListener(listenersRef, unsubs[k][1], unsubs[k][2])
    /\ liveSubs' = liveSubs \ {k}
    /\ openConnect' = FALSE
    /\ UNCHANGED <<reconnectEnabled, transportCap, subscribeCap, eventSourceRef,
                   nTransports, readyStates, wired, retryRef, timerRef, timerDelay,
                   strayTimers, destroyedRef, attachedNamesRef, state, unsubs,
                   invoked, lastEmit, nFrames, armedSinceOpen, cancelled, exhausted,
                   earlySubs, lastFrame>>
    /\ UNCHANGED <<serverVars, boundaryVars>>

\* Callbacks of an EventSource object that is no longer the current one
\* (closed by cleanup() and dropped, or replaced by a later connect()),
\* delivered all the same.  The handlers are the closures connect() and
\* addListener installed on that object; they test nothing before acting.
Stale(t) == t <= nTransports /\ t # eventSourceRef

LateOpen(t) ==
    /\ Stale(t)
    /\ OnOpen
    /\ UNCHANGED readyStates
    /\ UNCHANGED <<serverVars, boundaryVars>>

LateError(t) ==
    /\ Stale(t)
    /\ strayTimers < MaxStrayTimers
    /\ OnError(readyStates[t])
    /\ UNCHANGED readyStates
    /\ UNCHANGED <<serverVars, boundaryVars>>

LateFrame(t, name, id, raw) ==
    /\ Stale(t)
    /\ Dispatched(t, name)
    /\ nFrames < MaxFrames
    /\ nFrames' = nFrames + 1
    /\ lastFrame' = name
    /\ OnFrame(name, id, raw)
    /\ openConnect' = FALSE
    /\ UNCHANGED <<reconnectEnabled, transportCap, subscribeCap, eventSourceRef, nTransports, readyStates, wired,
                   retryRef, timerRef, timerDelay, strayTimers, destroyedRef,
                   listenersRef, attachedNamesRef, unsubs, liveSubs,
                   armedSinceOpen, cancelled, exhausted, earlySubs>>
    /\ UNCHANGED <<serverVars, boundaryVars>>

LateCallback ==
    \/ \E t \in Transports : LateOpen(t)
    \/ \E t \in Transports : LateError(t)
    \/ \E t \in Transports, f \in FrameInputs : LateFrame(t, f.event, f.id, f.data)

\* ------------------------------------------------------ client specification
\* the hook after its first render
InitHook ==
    /\ reconnectEnabled \in BOOLEAN
    /\ eventSourceRef = 0
    /\ nTransports = 0
    /\ readyStates = [t \in Transports |-> CLOSED]
    /\ wired = [t \in Transports |-> [n \in EventNames |-> 0]]
    /\ retryRef = 0
    /\ timerRef = "none"
    /\ timerDelay = 0
    /\ strayTimers = 0
    /\ destroyedRef = FALSE
    /\ listenersRef = EmptyMap
    /\ attachedNamesRef = {}
    /\ state = InitState
    /\ unsubs = << >>
    /\ liveSubs = {}
    /\ invoked = [h \in Handlers |-> 0]
    /\ lastEmit = NoEmit
    /\ nFrames = 0
    /\ armedSinceOpen = 0
    /\ cancelled = "no"
    /\ exhausted = FALSE
    /\ earlySubs = {}
    /\ lastFrame = "null"
    /\ openConnect = FALSE

\* Each specification runs one half of the system; the other half stays
\* as constructed.
\* ----------------------------------------------------------- the frame codec
\* Text is a sequence of one-character strings.  An optional field of an
\* object is << >> when it is absent and <<v>> when it holds v.
Chars == {"a", " ", ":", "\n"}
Texts == UNION {[1..n -> Chars] : n \in 0..MaxLen}
Digits == <<"0", "1", "2", "3", "4", "5", "6", "7", "8", "9">>

\* A payload is a string, a number, the object {a: n} or null.
Payloads ==
    {[str |-> t] : t \in Texts} \cup {[num |-> 0], [num |-> 15]}
        \cup {[obj |-> [a |-> 1]]} \cup {[null |-> TRUE]}

\* the SSEEvent objects handed to formatSSE
SSEEventInputs ==
    [id : {<<>>, << <<>> >>, << <<"7">> >>},
     event : {<<>>, << <<>> >>, << <<"x">> >>},
     retry : {<<>>, <<0>>, <<15>>},
     data : {<<>>} \cup {<<v>> : v \in Payloads}]

NoEvent == [id |-> <<>>, event |-> <<>>, retry |-> <<>>, data |-> <<>>]

\* a number in a template literal: its decimal digits
RECURSIVE ToDecimal(_)
ToDecimal(n) ==
    IF n < 10 THEN <<Digits[n + 1]>>
    ELSE ToDecimal(n \div 10) \o <<Digits[(n % 10) + 1]>>

\* JSON.stringify of a payload that is not a string
JSONstringify(v) ==
    IF "num" \in DOMAIN v THEN ToDecimal(v.num)
    ELSE IF "obj" \in DOMAIN v
         THEN <<"{", "\"", "a", "\"", ":">> \o ToDecimal(v.obj.a) \o <<"}">>
    ELSE <<"n", "u", "l", "l">>

\* formatSSE(sseEvent): the chunk before encoder.encode.  if (id), if
\* (event) and if (retry) test truthiness; data is tested against
\* undefined, a string goes in as it is, anything else through
\* JSON.stringify.
formatSSE(e) ==
    LET idLine == IF e.id # <<>> /\ e.id[1] # <<>>
                  THEN <<"i", "d", ":", " ">> \o e.id[1] \o <<"\n">> ELSE <<>>
        eventLine == IF e.event # <<>> /\ e.event[1] # <<>>
                     THEN <<"e", "v", "e", "n", "t", ":", " ">> \o e.event[1] \o <<"\n">>
                     ELSE <<>>
        retryLine == IF e.retry # <<>> /\ e.retry[1] # 0
                     THEN <<"r", "e", "t", "r", "y", ":", " ">> \o ToDecimal(e.retry[1])
                              \o <<"\n">>
                     ELSE <<>>
        dataLine == IF e.data # <<>>
                    THEN LET serialized == IF "str" \in DOMAIN e.data[1]
                                           THEN e.data[1].str
                                           ELSE JSONstringify(e.data[1])
                         IN <<"d", "a", "t", "a", ":", " ">> \o serialized \o <<"\n">>
                    ELSE <<>>
    IN idLine \o eventLine \o retryLine \o dataLine \o <<"\n">>

\* The receiving side: the event stream interpretation of an EventSource.
\* The stream is cut into lines at LF, CR or CRLF; an unfinished last line
\* is dropped.
RECURSIVE SplitLines(_, _)
SplitLines(s, cur) ==
    IF s = <<>> THEN <<>>
    ELSE IF Head(s) = "\n" THEN <<cur>> \o SplitLines(Tail(s), <<>>)
    ELSE IF Head(s) = "\r"
         THEN <<cur>> \o SplitLines(IF Len(s) > 1 /\ s[2] = "\n" THEN Tail(Tail(s))
                                    ELSE Tail(s), <<>>)
    ELSE SplitLines(Tail(s), Append(cur, Head(s)))

\* A line is split at its first colon into field name and value, one
\* leading space of the value dropped; a line without colon is all name.
FieldOf(line) ==
    IF \E i \in 1..Len(line) : line[i] = ":"
    THEN LET c == CHOOSE i \in 1..Len(line) :
                      line[i] = ":" /\ \A j \in 1..(i - 1) : line[j] # ":"
             rest == SubSeq(line, c + 1, Len(line))
         IN [name |-> SubSeq(line, 1, c - 1),
             value |-> IF rest # <<>> /\ rest[1] = " " THEN Tail(rest) ELSE rest]
    ELSE [name |-> line, value |-> <<>>]

IsDigits(v) == v # <<>> /\ \A i \in 1..Len(v) : \E d \in 1..10 : Digits[d] = v[i]

RECURSIVE ParseDecimal(_)
ParseDecimal(v) ==
    IF v = <<>> THEN 0
    ELSE 10 * ParseDecimal(SubSeq(v, 1, Len(v) - 1))
             + (CHOOSE d \in 0..9 : Digits[d + 1] = v[Len(v)])

ParserInit == [data |-> <<>>, eventType |-> <<>>, lastEventId |-> <<>>,
               reconnectionTime |-> <<>>, dispatched |-> <<>>]

\* A blank line dispatches the event: nothing when the data buffer is
\* empty, else an event of the buffered type, "message" when none was
\* given, whose data is the buffer without its last line feed.
DispatchEvent(st) ==
    IF st.data = <<>> THEN [st EXCEPT !.eventType = <<>>]
    ELSE [st EXCEPT !.dispatched =
                        Append(@, [type |-> IF st.eventType = <<>>
                                            THEN <<"m", "e", "s", "s", "a", "g", "e">>
                                            ELSE st.eventType,
                                   data |-> SubSeq(st.data, 1, Len(st.data) - 1),
                                   lastEventId |-> st.lastEventId]),
                   !.data = <<>>,
                   !.eventType = <<>>]

\* One line: blank dispatches, a leading colon is a comment, otherwise the
\* field is processed; unknown fields are ignored.
ProcessLine(st, line) ==
    IF line = <<>> THEN DispatchEvent(st)
    ELSE IF Head(line) = ":" THEN st
    ELSE LET f == FieldOf(line) IN
         IF f.name = <<"e", "v", "e", "n", "t">> THEN [st EXCEPT !.eventType = f.value]
         ELSE IF f.name = <<"d", "a", "t", "a">>
              THEN [st EXCEPT !.data = @ \o f.value \o <<"\n">>]
         ELSE IF f.name = <<"i", "d">> THEN [st EXCEPT !.lastEventId = f.value]
         ELSE IF f.name = <<"r", "e", "t", "r", "y">> /\ IsDigits(f.value)
              THEN [st EXCEPT !.reconnectionTime = <<ParseDecimal(f.value)>>]
         ELSE st

RECURSIVE ProcessLines(_, _)
ProcessLines(st, lines) ==
    IF lines = <<>> THEN st
    ELSE ProcessLines(ProcessLine(st, Head(lines)), Tail(lines))

ParseStream(s) == ProcessLines(ParserInit, SplitLines(s, <<>>))

\* formatSSE is called with an event.
FormatSSE ==
    /\ codecStep = "input"
    /\ chunk' = formatSSE(sseEvent)
    /\ codecStep' = "formatted"
    /\ UNCHANGED <<sseEvent, frames, request, response, handler, signal>>
    /\ UNCHANGED <<serverVars, clientVars>>

\* The bytes reach an EventSource, which interprets them.
Decode ==
    /\ codecStep = "formatted"
    /\ frames' = ParseStream(chunk)
    /\ codecStep' = "decoded"
    /\ UNCHANGED <<sseEvent, chunk, request, response, handler, signal>>
    /\ UNCHANGED <<serverVars, clientVars>>

\* --------------------------------------------------------- the emit endpoint
\* What req.json() makes of a publish request: it throws ("invalid"), or
\* gives null, a truthy value that is no object ("primitive"), or an object
\* with some of the fields event, kind, userId and clientId.
NoRequest == [shape |-> "none", event |-> <<>>, kind |-> <<>>, userId |-> <<>>,
              clientId |-> <<>>]
NoResponse == [status |-> 0, method |-> "none", target |-> <<>>]
BodyInputs ==
    [shape : {"object"},
     event : {<<>>, <<"">>, <<"notification">>},
     kind : {<<>>, <<"broadcast">>, <<"user">>, <<"client">>, <<"topic">>},
     userId : {<<>>} \cup {<<u>> : u \in Users},
     clientId : {<<>>} \cup {<<i>> : i \in Ids}]
      \cup {[NoRequest EXCEPT !.shape = s] : s \in {"invalid", "null", "primitive"}}

\* POST: the status answered and the registry method invoked, with its
\* first argument.  A throw of req.json() or of the in operator on a
\* primitive ends in the catch block.
EmitRoute(body) ==
    IF body.shape \in {"invalid", "primitive"}
    THEN [status |-> 500, method |-> "none", target |-> <<>>]
    ELSE IF body.shape = "null" \/ body.event = <<>>
    THEN [status |-> 400, method |-> "none", target |-> <<>>]
    ELSE IF body.kind = <<"broadcast">>
    THEN [status |-> 200, method |-> "broadcast", target |-> <<>>]
    ELSE IF body.kind = <<"user">>
    THEN [status |-> 200, method |-> "sendToUser", target |-> body.userId]
    ELSE IF body.kind = <<"client">>
    THEN [status |-> 200, method |-> "sendToClient", target |-> body.clientId]
    ELSE [status |-> 400, method |-> "none", target |-> <<>>]

\* The registry operation the route starts; an undefined user or client id
\* finds no entry in the maps.
RouteCall(r) ==
    IF r.method = "broadcast" THEN StartCall("broadcast", DOMAIN byId)
    ELSE IF r.method = "sendToUser"
         THEN StartCall("user", IF r.target # <<>> /\ r.target[1] \in DOMAIN byUser
                                THEN byUser[r.target[1]] ELSE {})
    ELSE IF r.method = "sendToClient"
         THEN StartCall("client", IF r.target # <<>> THEN {r.target[1]} ELSE {})
    ELSE call

\* POST /emit with the given body
PostEmit(body) ==
    /\ call.status # "running"
    /\ request' = body
    /\ response' = EmitRoute(body)
    /\ call' = RouteCall(EmitRoute(body))
    /\ UNCHANGED <<variant, created, clients, byId, byUser, timers, nextTimer, catches, threw>>
    /\ UNCHANGED <<sseEvent, codecStep, chunk, frames, handler, signal>>
    /\ UNCHANGED clientVars

\* ------------------------------------------------------- the stream endpoint
\* GET of the sync contract up to its first await: a fresh clientId,
\* addClient, startHeartbeat, and the write of the "connected <id>" comment
\* is awaited.  The GET of the async contract sends the handshake event in
\* the same run and awaits that.
GetRegister(i, u) ==
    /\ Cardinality(created) < MaxObjs
    /\ nextTimer < MaxTimers
    /\ \A x \in created : clients[x].id # i
    /\ LET o == Cardinality(created) + 1
           h == nextTimer + 1
           cl == [clients EXCEPT ![o] = [NoClient EXCEPT !.id = i, !.userId = u]]
       IN /\ created' = created \cup {o}
          /\ byId' = AddById(cl, byId, o)
          /\ byUser' = AddByUser(cl, byUser, o)
          /\ timers' = MapSet(HeartbeatCancel(timers, cl, o), h, [obj |-> o, id |-> i])
          /\ nextTimer' = h
          /\ clients' = [cl EXCEPT ![o].heartbeat = h]
          /\ handler' = [handler EXCEPT ![o] = IF variant = "sync" THEN "comment"
                                               ELSE "handshake"]
    /\ UNCHANGED <<variant, catches, call, threw>>
    /\ UNCHANGED <<sseEvent, codecStep, chunk, frames, request, response, signal>>
    /\ UNCHANGED clientVars

\* The write of the comment has resolved: the handshake event is written
\* and awaited.  A write whose peer has gone may resolve, reject or stay
\* pending; the GET goes on only when it resolves.
GetWriteHandshake(o) ==
    /\ handler[o] = "comment"
    /\ handler' = [handler EXCEPT ![o] = "handshake"]
    /\ UNCHANGED <<sseEvent, codecStep, chunk, frames, request, response, signal>>
    /\ UNCHANGED <<serverVars, clientVars>>

\* The write of the handshake has resolved: the abort listener is added
\* to req.signal and the response is returned.
GetListen(o) ==
    /\ handler[o] = "handshake"
    /\ handler' = [handler EXCEPT ![o] = "listening"]
    /\ UNCHANGED <<sseEvent, codecStep, chunk, frames, request, response, signal>>
    /\ UNCHANGED <<serverVars, clientVars>>

\* The peer goes away and the request's signal fires its abort event, once:
\* it reaches the listener when one has been added, and nobody otherwise.
SignalAbort(o) ==
    /\ o \in created
    /\ ~clients[o].peerGone
    /\ clients' = [clients EXCEPT ![o].peerGone = TRUE]
    /\ signal' = [signal EXCEPT ![o] = IF handler[o] = "listening" THEN "heard"
                                       ELSE "unheard"]
    /\ UNCHANGED <<variant, created, byId, byUser, timers, nextTimer, catches, call, threw>>
    /\ UNCHANGED <<sseEvent, codecStep, chunk, frames, request, response, handler>>
    /\ UNCHANGED clientVars

\* the abort listener runs
AbortListener(o) ==
    /\ signal[o] = "heard"
    /\ Abort(o)

\* no frame in the codec, no publish request handled
InitBoundary ==
    /\ sseEvent = NoEvent
    /\ codecStep = "idle"
    /\ chunk = <<>>
    /\ frames = ParserInit
    /\ request = NoRequest
    /\ response = NoResponse
    /\ handler = [o \in Objs |-> "none"]
    /\ signal = [o \in Objs |-> "idle"]

InitServer ==
    /\ InitRegistry /\ InitHook /\ InitBoundary
    /\ reconnectEnabled = TRUE
    /\ transportCap = MaxTransports
    /\ subscribeCap = MaxSubscribes
InitClient ==
    /\ InitRegistry /\ InitHook /\ InitBoundary /\ variant = "async"
    /\ transportCap = MaxTransports
    /\ subscribeCap = MaxSubscribes
InitDispatch ==
    /\ InitRegistry /\ InitHook /\ InitBoundary /\ variant = "async"
    /\ reconnectEnabled = TRUE
    /\ transportCap = MaxDispatchTransports
    /\ subscribeCap = MaxSubscribes
InitListeners ==
    /\ InitRegistry /\ InitHook /\ InitBoundary /\ variant = "async"
    /\ reconnectEnabled = TRUE
    /\ transportCap = MaxDispatchTransports
    /\ subscribeCap = MaxListenerSubs

\* connect(), disconnect(), the transport's callbacks and the reconnect timer
NextReconnect ==
    \/ Connect
    \/ Disconnect
    \/ TimerFire
    \/ \E t \in Transports : TransportOpen(t)
    \/ \E t \in Transports : TransportError(t)
    \/ \E t \in Transports : TransportFail(t)

\* the same with subscribers and frames
NextDispatch ==
    \/ NextReconnect
    \/ \E n \in EventNames, h \in Handlers : Subscribe(n, h)
    \/ \E k \in 1..MaxListenerSubs : Unsubscribe(k)
    \/ \E t \in Transports, f \in FrameInputs : Frame(t, f.event, f.id, f.data)

SpecRegistry == InitServer /\ [][NextRegistry]_vars
SpecSend == InitServer /\ [][NextSend]_vars
SpecTargets == InitServer /\ [][NextTargets]_vars
SpecReconnect == InitClient /\ [][NextReconnect]_vars
SpecDispatch == InitDispatch /\ [][NextDispatch]_vars

\* subscribers, connect() and disconnect(), the transport opening, frames
NextListeners ==
    \/ Connect
    \/ Disconnect
    \/ \E t \in Transports : TransportOpen(t)
    \/ \E n \in EventNames, h \in Handlers : Subscribe(n, h)
    \/ \E k \in 1..MaxListenerSubs : Unsubscribe(k)
    \/ \E t \in Transports, f \in FrameInputs : Frame(t, f.event, f.id, f.data)

SpecListeners == InitListeners /\ [][NextListeners]_vars

\* the same, with a transport that delivers callbacks after it was closed
NextLate ==
    \/ NextDispatch
    \/ LateCallback
    \/ StrayTimerFire

SpecLate == InitDispatch /\ [][NextLate]_vars

\* formatSSE applied to an event and its output read by an EventSource
InitCodec ==
    /\ InitRegistry /\ InitHook /\ variant = "async"
    /\ reconnectEnabled = TRUE
    /\ transportCap = MaxTransports
    /\ subscribeCap = MaxSubscribes
    /\ sseEvent \in SSEEventInputs
    /\ codecStep = "input"
    /\ chunk = <<>>
    /\ frames = ParserInit
    /\ request = NoRequest
    /\ response = NoResponse
    /\ handler = [o \in Objs |-> "none"]
    /\ signal = [o \in Objs |-> "idle"]
NextCodec == FormatSSE \/ Decode
SpecCodec == InitCodec /\ [][NextCodec]_vars

\* publish requests against a registry with connections
NextEmit ==
    \/ \E i \in Ids, u \in Users \cup {NoUser} : NewClient(i, u)
    \/ \E b \in BodyInputs : PostEmit(b)
    \/ \E w \in call.pending : WriteOk(w)
SpecEmit == InitServer /\ [][NextEmit]_vars

\* stream requests, their aborts, heartbeats and concurrent sends
NextStream ==
    \/ \E i \in Ids, u \in Users \cup {NoUser} : GetRegister(i, u)
    \/ \E o \in Objs : GetWriteHandshake(o)
    \/ \E o \in Objs : GetListen(o)
    \/ \E o \in Objs : SignalAbort(o)
    \/ \E o \in Objs : AbortListener(o)
    \/ \E h \in Handles : HeartbeatTick(h)
    \/ \E c \in catches : HeartbeatCatch(c)
    \/ \E o \in Objs : CloseDone(o)
    \/ Broadcast
    \/ \E u \in Users : SendToUser(u)
    \/ \E i \in Ids : SendToClient(i)
    \/ \E w \in call.pending : WriteOk(w)
    \/ \E w \in call.pending : WriteRejected(w)
SpecStream == InitServer /\ [][NextStream]_vars

\* Stream requests and their aborts, with what the runtime guarantees: a
\* write to a sink whose peer is there resolves; an abort event that reaches
\* a listener runs it; an armed heartbeat ticks, and its write rejects once
\* the peer has gone and the response has been handed to the runtime; a
\* rejected write runs its catch; a close settles.  Whether a write for a
\* peer that has gone settles before the response was returned is left open.
NextAbort ==
    \/ \E i \in Ids, u \in Users \cup {NoUser} : GetRegister(i, u)
    \/ \E o \in Objs : GetWriteHandshake(o)
    \/ \E o \in Objs : GetListen(o)
    \/ \E o \in Objs : SignalAbort(o)
    \/ \E o \in Objs : AbortListener(o)
    \/ \E h \in Handles : HeartbeatTick(h)
    \/ \E c \in catches : HeartbeatCatch(c)
    \/ \E o \in Objs : CloseDone(o)
FairAbort ==
    /\ \A o \in Objs : WF_vars(GetWriteHandshake(o) /\ ~clients[o].peerGone)
    /\ \A o \in Objs : WF_vars(GetListen(o) /\ ~clients[o].peerGone)
    /\ \A o \in Objs : WF_vars(AbortListener(o))
    /\ \A h \in Handles : WF_vars(HeartbeatTick(h) /\ handler[timers[h].obj] = "listening")
    /\ WF_vars(\E c \in catches : HeartbeatCatch(c))
    /\ \A o \in Objs : WF_vars(CloseDone(o))
SpecAbort == InitServer /\ [][NextAbort]_vars /\ FairAbort


\* -------------------------------------------------------------- properties

\* C1: after every addClient / removeClient call, every id in a byUser set
\* is a key of byId, and every connection in byId that has a userId is a
\* member of byUser[userId] -- also when addClient reuses a registered id.
C1_CrossInvariant ==
    /\ \A u \in DOMAIN byUser : byUser[u] \subseteq DOMAIN byId
    /\ \A i \in DOMAIN byId :
         LET u == clients[byId[i]].userId IN
         u # NoUser => (u \in DOMAIN byUser /\ i \in byUser[u])

\* C2: a fan-out whose write to one connection fails, or one of whose
\* connections is removed meanwhile, still completes the sends to the other
\* connections and returns normally: the operation never rejects, it
\* resolves only when every write of the snapshot has ended, and every
\* healthy target received the event.
C2_FanOutIsolated ==
    /\ call.status # "rejected"
    /\ ~threw
    /\ call.status = "resolved" =>
         /\ call.pending = {}
         /\ call.delivered \cup call.failed = call.targets
         /\ \A o \in call.targets :
              (~clients[o].peerGone /\ clients[o].sink = "open") => o \in call.delivered
    /\ call.status = "running" => call.pending # {}

\* a sendToUser over two connections returned with one write failed and
\* the other delivered
C2_Witness ==
    /\ call.kind = "user"
    /\ call.status = "resolved"
    /\ Cardinality(call.targets) = 2
    /\ Cardinality(call.failed) = 1
    /\ Cardinality(call.delivered) = 1

\* C3: when a write of a send operation is rejected, the connection ends up
\* out of byId and byUser with its sink closed, and the operation does not
\* reject.
C3_DeadPeerClosed ==
    [][\A w \in call.pending :
         WriteRejected(w) =>
           /\ \A i \in DOMAIN byId' : byId'[i] # w.obj
           /\ \A u \in DOMAIN byUser' : w.id \notin byUser'[u]
           /\ clients'[w.obj].sink # "open"
           /\ call'.status # "rejected"]_vars

\* C4: removeClient is idempotent on the registry (byId, byUser, the armed
\* timers and the connection objects), never throws, and changes nothing
\* for an id that is not registered.
C4_RemoveIdempotent ==
    /\ ~threw
    /\ \A i \in Ids :
         LET once == RemoveMaps(clients, byId, byUser, i)
             onceTimers == RemoveTimers(variant, timers, clients, byId, i)
             onceClients == RemoveClients(variant, clients, byId, i)
             twice == RemoveMaps(onceClients, once.byId, once.byUser, i)
         IN /\ ~once.threw /\ ~twice.threw
            /\ twice.byId = once.byId
            /\ twice.byUser = once.byUser
            /\ RemoveTimers(variant, onceTimers, onceClients, once.byId, i) = onceTimers
            /\ RemoveClients(variant, onceClients, once.byId, i) = onceClients
            /\ i \notin DOMAIN once.byId
            /\ i \notin DOMAIN byId =>
                 /\ once.byId = byId /\ once.byUser = byUser
                 /\ onceTimers = timers /\ onceClients = clients

\* every connection constructed was registered and removed again, one of
\* them by its abort listener after a rejected heartbeat write had already
\* removed it
C4_Witness ==
    /\ Cardinality(created) = MaxObjs
    /\ DOMAIN byId = {}
    /\ \E o \in created : clients[o].aborted /\ clients[o].heartbeat # NoTimer

\* C5: a handler subscribed to "connected" before the first connect() has,
\* once a transport is open and one frame named "connected" has arrived,
\* been invoked exactly once with the parsed payload, and
\* state.lastEventName is "connected".
C5_EarlySubscriberInvoked ==
    \A h \in Handlers :
        ( /\ <<"connected", h>> \in earlySubs
          /\ h \in EmitTo("connected")
          /\ nFrames = 1
          /\ lastFrame = "connected" )
        => /\ invoked[h] = 1
           /\ lastEmit = [name |-> "connected", to |-> EmitTo("connected"),
                          data |-> parseJson(HandshakeData), raised |-> FALSE]
           /\ state.lastEventName = "connected"

\* C6: the k-th reconnect timer armed since the last open (k from 0) has
\* the delay min(initialDelayMs * 2^k, maxDelayMs): 1000, 2000, 4000, 8000
\* and 15000 from there on.
C6_BackoffSequence ==
    LET sequence == <<1000, 2000, 4000, 8000, 15000, 15000, 15000, 15000, 15000, 15000>>
    IN timerRef = "pending" =>
        /\ armedSinceOpen \in 1..Len(sequence)
        /\ timerDelay = sequence[armedSinceOpen]
        /\ LET k == armedSinceOpen - 1
               d == initialDelayMs * (2 ^ k)
           IN timerDelay = IF d < maxDelayMs THEN d ELSE maxDelayMs

C6_Witness == timerRef = "pending" /\ armedSinceOpen = 6 /\ timerDelay = 15000

\* C7: at most maxRetries reconnect timers are armed between two opens;
\* with the counter at maxRetries no step arms a timer; connect() called
\* after the retries ran out constructs a new transport.
C7_RetryCap ==
    [][/\ armedSinceOpen' <= maxRetries
       /\ retryRef >= maxRetries =>
            /\ armedSinceOpen' <= armedSinceOpen
            /\ timerRef' = "pending" => timerRef = "pending"
       /\ (exhausted /\ Connect) =>
            /\ nTransports' = nTransports + 1
            /\ eventSourceRef' = nTransports'
            /\ readyStates'[eventSourceRef'] = CONNECTING]_vars

C7_Witness ==
    /\ exhausted
    /\ armedSinceOpen = maxRetries
    /\ retryRef = maxRetries
    /\ timerRef # "pending"
    /\ eventSourceRef = maxRetries + 2
    /\ readyStates[eventSourceRef] = CONNECTING

\* C8: disconnect() with a reconnect timer pending leaves no timer armed
\* and no transport; from then on the only step that constructs a transport
\* is connect() called by the application, and it constructs exactly one.
C8_DisconnectCancelsTimer ==
    [][/\ cancelled' = "cancelled" =>
            /\ timerRef' # "pending"
            /\ strayTimers' = 0
            /\ eventSourceRef' = 0
       /\ (cancelled = "cancelled" /\ nTransports' # nTransports) =>
            /\ Connect
            /\ nTransports' = nTransports + 1
            /\ cancelled' = "reconnected"]_vars

C8_Witness ==
    /\ cancelled = "reconnected"
    /\ timerRef = "none"
    /\ eventSourceRef = nTransports
    /\ readyStates[eventSourceRef] = CONNECTING

\* C9: a callback of an EventSource object that is no longer the current
\* one changes neither the state nor the retry counter, arms no timer and
\* calls no subscriber.
C9_LateCallbackIgnored ==
    [][LateCallback =>
         /\ state' = state
         /\ retryRef' = retryRef
         /\ timerRef' = timerRef
         /\ strayTimers' = strayTimers
         /\ invoked' = invoked]_vars

\* C10: every connection has at most one armed heartbeat timer, however
\* often startHeartbeat is called for it.
C10_OneHeartbeat ==
    \A o \in Objs : Cardinality({h \in DOMAIN timers : timers[h].obj = o}) <= 1

\* startHeartbeat ran twice for the one connection there is: the second
\* timer is armed, the first one is not
C10_Witness ==
    /\ Cardinality(created) = 1
    /\ nextTimer = 2
    /\ DOMAIN timers = {2}
    /\ \E o \in created : clients[o].heartbeat = 2 /\ timers[2].obj = o

\* C11: the .catch of a rejected heartbeat write (sync registry) leaves the
\* connection whose write failed without an armed timer and outside byId,
\* and takes no other connection out of byId.
C11_HeartbeatFailureRemoves ==
    [][\A c \in catches :
         (variant = "sync" /\ HeartbeatCatch(c)) =>
           /\ \A h \in DOMAIN timers' : timers'[h].obj # c.obj
           /\ \A i \in DOMAIN byId' : byId'[i] # c.obj
           /\ \A i \in DOMAIN byId :
                byId[i] # c.obj => (i \in DOMAIN byId' /\ byId'[i] = byId[i])]_vars

\* C12: when the abort listener and the write-failure path both call
\* removeClient for a connection, the call that comes second -- the id is
\* no longer registered, the first call's close() may still be pending --
\* changes neither byId, byUser nor the timers, raises nothing, and does
\* not close a sink that is already closing or closed.
C12_SecondRemovalNoOp ==
    [][\A o \in created :
         LET removed == clients[o].id \notin DOMAIN byId IN
         /\ (removed /\ Abort(o)) =>
              /\ byId' = byId /\ byUser' = byUser /\ timers' = timers
              /\ ~threw'
              /\ clients[o].sink # "open" => clients'[o].sink = clients[o].sink
              /\ variant = "async" => clients'[o].sink = clients[o].sink
         /\ \A w \in call.pending :
              (removed /\ w.obj = o /\ WriteRejected(w)) =>
                /\ byId' = byId /\ byUser' = byUser /\ timers' = timers
                /\ clients' = clients
                /\ ~threw'
                /\ call'.status # "rejected"]_vars

\* the abort listener and a rejected write both ran removeClient for a
\* connection whose close() is still pending
C12_Witness ==
    \E o \in created :
        /\ clients[o].aborted
        /\ o \in call.failed
        /\ clients[o].sink = "closing"
        /\ clients[o].id \notin DOMAIN byId
        /\ Cardinality(created) = 1

\* C13: a userId is a key of byUser exactly when a connection registered in
\* byId has that userId, and no byUser entry is an empty set.
C13_UserKeysLive ==
    /\ \A u \in Users :
         u \in DOMAIN byUser <=> \E i \in DOMAIN byId : clients[byId[i]].userId = u
    /\ \A u \in DOMAIN byUser : byUser[u] # {}

\* C14: every write sendToUser(u, event) starts goes to a connection whose
\* userId is u.
C14_UserSendScoped ==
    [][\A u \in Users :
         SendToUser(u) => \A o \in call'.targets : clients[o].userId = u]_vars

\* C15: sendToUser and broadcast return only when every write started for
\* the snapshot taken at the call has ended, delivered or failed: no step
\* leaves such an operation returned with a write still pending.
C15_ReturnsAfterAllSettled ==
    [][/\ (call'.kind \in {"user", "broadcast"} /\ call'.status # "running") =>
            /\ call'.pending = {}
            /\ call'.delivered \cup call'.failed = call'.targets
       /\ call.status = "running" =>
            /\ call'.targets = call.targets
            /\ call'.snap = call.snap]_vars

\* a broadcast over two connections returned after both writes were delivered
C15_Witness ==
    /\ call.kind = "broadcast"
    /\ call.status = "resolved"
    /\ Cardinality(call.targets) = 2
    /\ call.delivered = call.targets

\* C16: a sendToUser or broadcast that starts writes only to connections
\* byId holds at that moment: a connection removeClient has deleted gets no
\* write from it, whether or not its close() has completed.
C16_NoWriteAfterRemoval ==
    [][\A u \in Users :
         (SendToUser(u) \/ Broadcast) =>
           \A o \in call'.targets : \E i \in DOMAIN byId : byId[i] = o]_vars

\* a broadcast is in flight to the one registered connection while the
\* other, removed before, still has its close() pending
C16_Witness ==
    \E o \in created :
        /\ clients[o].sink = "closing"
        /\ \A i \in DOMAIN byId : byId[i] # o
        /\ call.kind = "broadcast"
        /\ call.status = "running"
        /\ call.targets = created \ {o}
        /\ call.targets # {}
        /\ call.snap = DOMAIN byId
        /\ clients[o].id \notin call.snap

\* C17: broadcast starts exactly one write for every connection byId holds
\* when it is called, and none for any other connection.
C17_BroadcastTargets ==
    [][Broadcast =>
         /\ call'.targets = {byId[i] : i \in DOMAIN byId}
         /\ Cardinality(call'.pending) = Cardinality(DOMAIN byId)
         /\ \A i \in DOMAIN byId :
              Cardinality({w \in call'.pending : w.obj = byId[i]}) = 1]_vars

\* a broadcast has started one write to each of two registered connections,
\* one of them registered without a userId
C17_Witness ==
    /\ call.kind = "broadcast"
    /\ call.status = "running"
    /\ Cardinality(call.pending) = 2
    /\ call.targets = created
    /\ \E o \in created : clients[o].userId = NoUser
    /\ Cardinality(DOMAIN byId) = 2

\* C18: sendToClient for an id byId does not hold, sendToUser for a userId
\* byUser does not hold and startHeartbeat for an id byId does not hold
\* start no write, arm no timer, leave byId, byUser and the connections as
\* they are, and raise nothing.
C18_UnknownTargetNoOp ==
    /\ [](\A i \in Ids :
            i \notin DOMAIN byId => ~ENABLED (StartHeartbeat(i) /\ vars' # vars))
    /\ [][/\ \A i \in Ids :
              (i \notin DOMAIN byId /\ SendToClient(i)) =>
                /\ call'.pending = {} /\ call'.targets = {}
                /\ call'.status = "resolved"
                /\ timers' = timers /\ nextTimer' = nextTimer
                /\ byId' = byId /\ byUser' = byUser /\ clients' = clients
                /\ ~threw'
          /\ \A u \in Users :
              (u \notin DOMAIN byUser /\ SendToUser(u)) =>
                /\ call'.pending = {} /\ call'.targets = {}
                /\ call'.status = "resolved"
                /\ timers' = timers /\ nextTimer' = nextTimer
                /\ byId' = byId /\ byUser' = byUser /\ clients' = clients
                /\ ~threw']_vars

\* sendToUser for a user without connections returned while another user's
\* connection is registered with its heartbeat armed
C18_Witness ==
    /\ call.kind = "user"
    /\ call.snap = {}
    /\ call.status = "resolved"
    /\ DOMAIN byUser # {}
    /\ DOMAIN byUser # Users
    /\ DOMAIN timers # {}

C20_RetryResetOnlyOnOpen ==
    [][/\ retryRef' < retryRef =>
            /\ retryRef' = 0
            /\ \E t \in Transports : TransportOpen(t)
       /\ (Connect \/ TimerFire \/ Disconnect) => retryRef' = retryRef
       /\ \A t \in Transports :
            (TransportError(t) \/ TransportFail(t)) => retryRef' >= retryRef]_vars

\* the transport constructed by the second reconnect timer in a row has
\* opened and the counter is back at 0
C20_Witness ==
    /\ retryRef = 0
    /\ timerDelay = 2000
    /\ eventSourceRef = 3
    /\ readyStates[eventSourceRef] = OPEN
    /\ state.connected
    /\ armedSinceOpen = 0

\* C21: connect() called after disconnect() clears the destroyed flag and
\* constructs a transport; when that transport fails for good with
\* reconnecting enabled and the retry counter below maxRetries, a reconnect
\* timer is armed again.
C21_DisconnectNotPermanent ==
    [][/\ (destroyedRef /\ Connect) =>
            /\ ~destroyedRef'
            /\ nTransports' = nTransports + 1
            /\ eventSourceRef' = nTransports'
            /\ readyStates'[eventSourceRef'] = CONNECTING
       /\ \A t \in Transports :
            (TransportFail(t) /\ reconnectEnabled /\ retryRef < maxRetries) =>
              /\ timerRef' = "pending"
              /\ retryRef' = retryRef + 1]_vars

\* disconnect() cancelled a pending timer, connect() was called, and the
\* transport it constructed has failed: a reconnect timer is pending again
C21_Witness ==
    /\ cancelled = "reconnected"
    /\ ~destroyedRef
    /\ timerRef = "pending"
    /\ eventSourceRef = 3
    /\ readyStates[eventSourceRef] = CLOSED

\* C22: while a current transport exists, state.readyState is the
\* readyState that transport reports.
C22_ReadyStateMirrorsTransport ==
    eventSourceRef # 0 => state.readyState = readyStates[eventSourceRef]

C24_FrameOverwritesLast ==
    [][\A t \in Transports, f \in FrameInputs :
         (Frame(t, f.event, f.id, f.data)
            /\ (f.event = "message" \/ EmitTo(f.event) # {})) =>
           /\ state'.lastEventName = f.event
           /\ state'.lastData = parseJson(f.data)
           /\ state'.lastEventId = IF f.id # "" THEN f.id ELSE state.lastEventId]_vars

\* C25: a handler is registered for a name exactly when some subscription
\* of it to that name has not been unsubscribed -- an unsubscribe function
\* removes its own subscription and no other -- and no name is left with an
\* empty set.
C25_UnsubscribeExact ==
    /\ \A n \in EventNames, h \in Handlers :
         h \in EmitTo(n) <=> \E k \in liveSubs : unsubs[k] = <<n, h>>
    /\ \A n \in DOMAIN listenersRef : listenersRef[n] # {}

\* C26: an emit to a name calls every handler subscribed to the name at
\* that moment, also when one of them throws, and no error leaves emit.
C26_ThrowingSubscriberIsolated ==
    [][lastEmit' # lastEmit =>
         /\ lastEmit'.to = EmitTo(lastEmit'.name)
         /\ ~lastEmit'.raised]_vars

\* an emit reached a handler that throws and one that does not
C26_Witness ==
    /\ lastEmit.to \cap ThrowingHandlers # {}
    /\ lastEmit.to \ ThrowingHandlers # {}

\* C27: no transport carries more than one dispatcher for a name and none
\* for open, error or message, and a frame that arrives on the current
\* transport invokes each handler registered for its name exactly once and
\* no other handler.
C27_FrameInvokesOnce ==
    /\ [](\A t \in Transports, n \in EventNames :
            /\ wired[t][n] <= 1
            /\ n \in ReservedNames => wired[t][n] = 0)
    /\ [][nFrames' = nFrames + 1 =>
            \A h \in Handlers :
                invoked'[h] = invoked[h] + (IF h \in EmitTo(lastFrame') THEN 1 ELSE 0)]_vars

\* C28: the text formatSSE produces is the id line, the event line, the
\* retry line and the data line, in this order, each one there exactly when
\* the event has the field, and then one blank line; an event without any
\* field gives the blank line alone.
C28_FieldLinesInOrder ==
    codecStep \in {"formatted", "decoded"} =>
        chunk = (IF sseEvent.id # <<>>
                 THEN <<"i", "d", ":", " ">> \o sseEvent.id[1] \o <<"\n">> ELSE <<>>)
             \o (IF sseEvent.event # <<>>
                 THEN <<"e", "v", "e", "n", "t", ":", " ">> \o sseEvent.event[1] \o <<"\n">>
                 ELSE <<>>)
             \o (IF sseEvent.retry # <<>>
                 THEN <<"r", "e", "t", "r", "y", ":", " ">> \o ToDecimal(sseEvent.retry[1])
                          \o <<"\n">>
                 ELSE <<>>)
             \o (IF sseEvent.data # <<>>
                 THEN <<"d", "a", "t", "a", ":", " ">>
                          \o (IF "str" \in DOMAIN sseEvent.data[1] THEN sseEvent.data[1].str
                              ELSE JSONstringify(sseEvent.data[1]))
                          \o <<"\n">>
                 ELSE <<>>)
             \o <<"\n">>

\* C29: an event with a name and a payload, formatted and then read by an
\* SSE parser, arrives as exactly one event whose type is the name and
\* whose data is the payload string itself, or the JSON text of a payload
\* that is not a string.
C29_RoundTrip ==
    ( /\ codecStep = "decoded"
      /\ sseEvent.event # <<>> /\ sseEvent.event[1] # <<>>
      /\ sseEvent.data # <<>> )
    => /\ Len(frames.dispatched) = 1
       /\ frames.dispatched[1].type = sseEvent.event[1]
       /\ frames.dispatched[1].data =
              IF "str" \in DOMAIN sseEvent.data[1] THEN sseEvent.data[1].str
              ELSE JSONstringify(sseEvent.data[1])

\* C30: a publish request whose body lacks the event name or has an empty
\* one, lacks the kind or has an unknown one, or has kind user without
\* userId or kind client without clientId, is answered with status 400 and
\* no send method of the registry is invoked for it.
C30_MalformedRejected ==
    ( /\ request.shape = "object"
      /\ \/ request.event \in {<<>>, <<"">>}
         \/ request.kind \notin {<<"broadcast">>, <<"user">>, <<"client">>}
         \/ request.kind = <<"user">> /\ request.userId = <<>>
         \/ request.kind = <<"client">> /\ request.clientId = <<>> )
    => /\ response.status = 400
       /\ response.method = "none"

\* C31: a send operation writes to a connection of the stream endpoint
\* only after the endpoint has written the handshake event to its sink.
C31_HandshakeFirst ==
    \A o \in created : o \in call.targets => handler[o] # "comment"

\* C32: a registration under an id already registered takes over the
\* entry of the id without raising; a send operation writes only to
\* connections the id map holds, so never to the replaced one; and the open
\* sink of a connection the id map does not hold is closed by no
\* removeClient, only by the abort listener of its own sync endpoint.
C32_DuplicateIdReplaces ==
    [][ /\ \A o \in created' \ created :
             byId'[clients'[o].id] = o /\ threw' = threw
        /\ call'.targets # call.targets =>
             \A o \in call'.targets : \E i \in DOMAIN byId : byId[i] = o
        /\ \A o \in created :
             ( /\ \A i \in DOMAIN byId : byId[i] # o
               /\ clients[o].sink = "open"
               /\ ~(variant = "sync" /\ clients'[o].aborted /\ ~clients[o].aborted) )
             => clients'[o].sink = "open" ]_vars

\* two connections were registered under one id, the id has been removed
\* since, which closed the second, and the first is still open
C32_Witness ==
    \E o1, o2 \in created :
        /\ o1 < o2
        /\ clients[o1].id = clients[o2].id
        /\ clients[o1].id \notin DOMAIN byId
        /\ clients[o1].sink = "open"
        /\ clients[o2].sink # "open"
        /\ variant = "async"

\* C33: every transport the client has created, other than the current
\* one, is closed.
C33_OneLiveTransport ==
    \A t \in 1..nTransports : t # eventSourceRef => readyStates[t] = CLOSED

\* a later transport has replaced an earlier one and is open
C33_Witness ==
    /\ nTransports >= 2
    /\ eventSourceRef = nTransports
    /\ readyStates[eventSourceRef] = OPEN

\* C34: a frame of a name that had its dispatcher on an earlier transport,
\* arriving on the transport that replaced it, invokes every handler still
\* subscribed to the name.
C34_HandlerSurvivesReconnect ==
    [][\A n \in NamedEvents, h \in Handlers :
         ( /\ nFrames' = nFrames + 1
           /\ lastFrame' = n
           /\ h \in EmitTo(n)
           /\ \E t \in 1..nTransports : t # eventSourceRef /\ wired[t][n] > 0 )
         => invoked'[h] = invoked[h] + 1]_vars

\* C36: no reconnect timer is armed while an earlier one is pending: the
\* only timer that can be pending is the one timerRef holds.
C36_OneTimerPending ==
    strayTimers = 0

\* a second reconnect timer is pending after the first one fired or was
\* cleared and a further transport failed
C36_Witness ==
    /\ timerRef = "pending"
    /\ armedSinceOpen >= 2
    /\ nTransports >= 2

\* C37: every armed heartbeat timer writes to a connection that the id map
\* holds: a connection that was removed, or whose entry was taken over by
\* another connection, has no armed timer.
C37_NoHeartbeatOnUnreachable ==
    \A h \in DOMAIN timers :
        \E i \in DOMAIN byId : byId[i] = timers[h].obj

\* C35: a connection whose request's abort signal has fired is eventually
\* out of the id map.
C35_AbortedEventuallyRemoved ==
    \A o \in Objs :
        (signal[o] # "idle") ~> (\A i \in DOMAIN byId : byId[i] # o)

====
